---- MODULE Spec2Model ----
(***************************************************************************)
(* Model of the API Gateway Lambda authorizer: handler (src/index.ts),     *)
(* TokenValidatorService.validateToken (src/services/tokenValidator.ts),   *)
(* SecretsManagerService.getSecret with its process-wide secretsCache      *)
(* (src/services/secretsManager.ts) and the policy generators              *)
(* (src/utils/policyGenerator.ts).                                         *)
(*                                                                         *)
(* Time: one model tick of `clock` stands for Date.now(); the token's      *)
(* exp/nbf and the cache expiry are expressed in the same ticks.           *)
(***************************************************************************)
EXTENDS Integers, Sequences, FiniteSets, TLC

\* ------------------------------------------------------------------ bounds
MaxClock == 3
MaxInvocations == 3
MaxRotations == 1

\* ------------------------------------------------------- program constants
\* config.aws.secretsManager.cacheExpiryMs (scaled to ticks)
CacheExpiryMs == 2

\* config.jwt.*
JwtSecretName == "magento/jwt/secret"
JwtIssuer == "magento"
JwtAudience == "api-gateway"
JwtAlgorithm == "HS256"

\* ------------------------------------------------------------ value spaces
\* An absent (undefined) string-valued property.
Absent == "<undefined>"
\* An absent numeric claim (exp / nbf not in the payload).
NoTime == 0 - 1

Procs == {"p1", "p2"}

\* Secret values the store may hold for the JWT secret name, the value of
\* LOCAL_JWT_SECRET when one is configured, and a key the store never held.
StoreKeys == {"k1", "k2"}
LocalKey == "k0"
ForeignKey == "kx"
SigningKeys == StoreKeys \cup {LocalKey, ForeignKey}

\* Another secret kept in the store, and its value there.
OtherSecretName == "magento/other/secret"
OtherKey == "o1"

CoreArn == "arn:aws:execute-api:us-east-1:123456789012:abcdef123/test/GET/resource"
MethodArns == {CoreArn,
               "arn:aws:execute-api:us-east-1:123456789012:abcdef123/test/POST/orders"}

\* A JSON array claim (roles / scopes): absent, a non-array value, or an array.
AbsentClaim == [kind |-> "absent", items |-> <<>>]
ScalarClaim == [kind |-> "string", items |-> <<"admin">>]
ArrayClaim(s) == [kind |-> "array", items |-> s]

\* An expiry no run of the model reaches.
ExpLate == MaxClock + 2

\* A token the issuer would mint: signed with k1, all claims in order.
GoodToken ==
  [form |-> "ok", alg |-> "HS256", sig |-> "k1",
   nbf |-> NoTime, exp |-> ExpLate,
   aud |-> "api-gateway", iss |-> "magento",
   sub |-> "user123",
   roles |-> ArrayClaim(<<"customer", "admin">>),
   scopes |-> ArrayClaim(<<"write", "read">>),
   ip |-> Absent]

\* The tokens that differ from t in exactly one property.
Variants(t) ==
     {[t EXCEPT !.form = v] : v \in {"ok", "malformed"} \ {t.form}}
  \cup {[t EXCEPT !.alg = v] : v \in {"HS256", "HS384"} \ {t.alg}}
  \cup {[t EXCEPT !.sig = v] : v \in SigningKeys \ {t.sig}}
  \cup {[t EXCEPT !.nbf = v] : v \in {NoTime, 1} \ {t.nbf}}
  \cup {[t EXCEPT !.exp = v] : v \in {NoTime, 2, ExpLate} \ {t.exp}}
  \cup {[t EXCEPT !.aud = v] : v \in {"api-gateway", "other-api"} \ {t.aud}}
  \cup {[t EXCEPT !.iss = v] : v \in {"magento", "someone-else"} \ {t.iss}}
  \cup {[t EXCEPT !.sub = v] : v \in {"user123", "", Absent} \ {t.sub}}
  \cup {[t EXCEPT !.roles = v] :
          v \in {ArrayClaim(<<"customer", "admin">>), ArrayClaim(<<>>),
                 ScalarClaim, AbsentClaim} \ {t.roles}}
  \cup {[t EXCEPT !.scopes = v] :
          v \in {ArrayClaim(<<"write", "read">>), ArrayClaim(<<>>),
                 ScalarClaim, AbsentClaim} \ {t.scopes}}
  \cup {[t EXCEPT !.ip = v] : v \in {Absent, "1.2.3.4"} \ {t.ip}}

\* Tokens presented to one handler invocation at a time: the good token and
\* every token with one property changed.
Tokens == {GoodToken} \cup Variants(GoodToken)

\* The token presented to concurrent invocations.
CoreTokens == {GoodToken}

\* Tokens passed to validateToken directly: every combination of the subject,
\* roles and scopes claims; a bound ip on a token with and without another
\* defect; every combination of signature, validity window and audience (an nbf
\* later than the exp included); and the single deviations of Variants.
ClaimTokens ==
  {[GoodToken EXCEPT !.sub = s, !.roles = r, !.scopes = c] :
     s \in {"user123", "", Absent},
     r \in {ArrayClaim(<<"customer", "admin">>), ArrayClaim(<<>>), ScalarClaim, AbsentClaim},
     c \in {ArrayClaim(<<"write", "read">>), ArrayClaim(<<>>), ScalarClaim, AbsentClaim}}
IpTokens ==
  {[GoodToken EXCEPT !.ip = i, !.scopes = c] :
     i \in {"", "1.2.3.4"},
     c \in {ArrayClaim(<<"write", "read">>), ArrayClaim(<<>>)}}
WindowTokens ==
  {[GoodToken EXCEPT !.sig = k, !.nbf = n, !.exp = e, !.aud = a] :
     k \in {"k1", ForeignKey},
     n \in {NoTime, 1, MaxClock},
     e \in {NoTime, 2, ExpLate},
     a \in {"api-gateway", "other-api"}}
ValidateTokens == ClaimTokens \cup IpTokens \cup WindowTokens \cup Variants(GoodToken)

\* The sourceIp argument of validateToken: not passed, empty, or an address.
SourceIps == {Absent, "", "1.2.3.4", "5.6.7.8"}

\* ------------------------------------------------------------ the request
\* event.authorizationToken: undefined, a JSON value that is no string (the
\* event is untyped JSON at run time), or a string "<scheme><ws spaces><rest>".
NoHeader == [type |-> "undefined", scheme |-> "", ws |-> 0, hasRest |-> FALSE, rest |-> GoodToken]
NonStringHeader == [type |-> "number", scheme |-> "", ws |-> 0, hasRest |-> FALSE, rest |-> GoodToken]
StringHeader(s, w, t) == [type |-> "string", scheme |-> s, ws |-> w, hasRest |-> TRUE, rest |-> t]
BareHeader(s, w) == [type |-> "string", scheme |-> s, ws |-> w, hasRest |-> FALSE, rest |-> GoodToken]

\* Strings that are not `Bearer <token>`: "", "Bearer", "Bearer ", "Basic <t>",
\* "Bearer<t>" (no whitespace).
OddHeaders ==
  {BareHeader("", 0), BareHeader("Bearer", 0), BareHeader("Bearer", 1),
   StringHeader("Basic", 1, GoodToken), StringHeader("Bearer", 0, GoodToken)}

HeadersOver(T) ==
  {NoHeader, NonStringHeader} \cup OddHeaders
    \cup {StringHeader("Bearer", 1, t) : t \in T}
    \cup {StringHeader("bearer", 2, GoodToken), StringHeader("BEARER", 1, GoodToken)}

\* String.prototype.toLowerCase on the scheme words used here (the /i flag).
ToLower(s) ==
  CASE s = "Bearer" -> "bearer"
    [] s = "BEARER" -> "bearer"
    [] s = "Basic" -> "basic"
    [] OTHER -> s

\* extractToken without the scheme test: any "<word> <rest>" yields <rest>.
extractTokenAnyScheme(h) ==
  IF h.type = "undefined" \/ (h.type = "string" /\ h.scheme = "" /\ h.ws = 0 /\ ~h.hasRest)
    THEN [kind |-> "null", token |-> GoodToken]
  ELSE IF h.type # "string"
    THEN [kind |-> "throw", token |-> GoodToken]
  ELSE IF ~(h.ws >= 1)
    THEN [kind |-> "null", token |-> GoodToken]
  ELSE IF ~h.hasRest
    THEN [kind |-> "empty", token |-> GoodToken]
  ELSE [kind |-> "token", token |-> h.rest]

\* extractToken: null, a thrown TypeError (.match on a non-string), or match[1].
extractToken(h) ==
  IF h.type = "undefined" \/ (h.type = "string" /\ h.scheme = "" /\ h.ws = 0 /\ ~h.hasRest)
    THEN [kind |-> "null", token |-> GoodToken]
  ELSE IF h.type # "string"
    THEN [kind |-> "throw", token |-> GoodToken]
  ELSE IF ~(ToLower(h.scheme) = "bearer" /\ h.ws >= 1)
    THEN [kind |-> "null", token |-> GoodToken]
  ELSE IF ~h.hasRest
    THEN [kind |-> "empty", token |-> GoodToken]
  ELSE [kind |-> "token", token |-> h.rest]

\* ------------------------------------------------------- token validation
\* TokenValidationResult
InvalidResult(msg) ==
  [isValid |-> FALSE, userId |-> "", roles |-> <<>>, scopes |-> <<>>, error |-> msg]
ValidResult(sub, roles, scopes) ==
  [isValid |-> TRUE, userId |-> sub, roles |-> roles, scopes |-> scopes, error |-> ""]

\* What a try body ends with: a returned value, or a thrown error of a class.
Returned(v) == [threw |-> FALSE, class |-> "", message |-> "", value |-> v]
Thrown(c, m) == [threw |-> TRUE, class |-> c, message |-> m, value |-> InvalidResult("")]

\* How getSecret settles: the secret string, or a thrown Error.
SecretOk(v) == [threw |-> FALSE, class |-> "", message |-> "", value |-> v]
SecretThrown(m) == [threw |-> TRUE, class |-> "Error", message |-> m, value |-> ""]
NoSecret == [threw |-> FALSE, class |-> "", message |-> "", value |-> ""]

\* jwt.decode in place of jwt.verify: the signature is not checked.
jwtDecodeOnly(token, secret, t) ==
  IF token.form # "ok" THEN Thrown("JsonWebTokenError", "jwt malformed")
  ELSE IF token.nbf # NoTime /\ token.nbf > t THEN Thrown("NotBeforeError", "jwt not active")
  ELSE IF token.exp # NoTime /\ t >= token.exp THEN Thrown("TokenExpiredError", "jwt expired")
  ELSE [threw |-> FALSE, class |-> "", message |-> "", value |-> token]

\* jwt.verify(token, secret, {algorithms, issuer, audience}) at time t:
\* the decoded payload, or the error jsonwebtoken throws, in its order of checks.
jwtVerify(token, secret, t) ==
  IF token.form # "ok" THEN Thrown("JsonWebTokenError", "jwt malformed")
  ELSE IF token.alg # JwtAlgorithm THEN Thrown("JsonWebTokenError", "invalid algorithm")
  ELSE IF token.sig # secret THEN Thrown("JsonWebTokenError", "invalid signature")
  ELSE IF token.nbf # NoTime /\ token.nbf > t THEN Thrown("NotBeforeError", "jwt not active")
  ELSE IF token.exp # NoTime /\ t >= token.exp THEN Thrown("TokenExpiredError", "jwt expired")
  ELSE IF token.aud # JwtAudience
    THEN Thrown("JsonWebTokenError", "jwt audience invalid. expected: " \o JwtAudience)
  ELSE IF token.iss # JwtIssuer
    THEN Thrown("JsonWebTokenError", "jwt issuer invalid. expected: " \o JwtIssuer)
  ELSE [threw |-> FALSE, class |-> "", message |-> "", value |-> token]

\* JavaScript truthiness of an optional string property.
Falsy(s) == s = Absent \/ s = ""

\* !x || !Array.isArray(x) || x.length === 0
MissingOrEmpty(c) == c.kind # "array" \/ Len(c.items) = 0

\* checkClaims without the roles check.
checkClaimsNoRoles(decoded, sourceIp) ==
  IF decoded.sub = Absent \/ decoded.sub = "" THEN InvalidResult("Missing subject (user ID) in token")
  ELSE IF decoded.scopes.kind # "array" \/ Len(decoded.scopes.items) = 0
    THEN InvalidResult("Missing or invalid scopes in token")
  ELSE ValidResult(decoded.sub, decoded.roles.items, decoded.scopes.items)

\* checkClaims testing the scopes before the roles.
checkClaimsScopesFirst(decoded, sourceIp) ==
  IF Falsy(decoded.sub) THEN InvalidResult("Missing subject (user ID) in token")
  ELSE IF MissingOrEmpty(decoded.scopes) THEN InvalidResult("Missing or invalid scopes in token")
  ELSE IF MissingOrEmpty(decoded.roles) THEN InvalidResult("Missing or invalid roles in token")
  ELSE IF ~Falsy(decoded.ip) /\ ~Falsy(sourceIp) /\ decoded.ip # sourceIp
    THEN InvalidResult("IP address mismatch")
  ELSE ValidResult(decoded.sub, decoded.roles.items, decoded.scopes.items)

\* checkClaims comparing a bound ip also when no sourceIp was passed.
checkClaimsIpRequired(decoded, sourceIp) ==
  IF Falsy(decoded.sub) THEN InvalidResult("Missing subject (user ID) in token")
  ELSE IF MissingOrEmpty(decoded.roles) THEN InvalidResult("Missing or invalid roles in token")
  ELSE IF MissingOrEmpty(decoded.scopes) THEN InvalidResult("Missing or invalid scopes in token")
  ELSE IF ~Falsy(decoded.ip) /\ decoded.ip # sourceIp
    THEN InvalidResult("IP address mismatch")
  ELSE ValidResult(decoded.sub, decoded.roles.items, decoded.scopes.items)

\* validateToken, lines 34-58: the checks on the decoded payload.
checkClaims(decoded, sourceIp) ==
  IF Falsy(decoded.sub) THEN InvalidResult("Missing subject (user ID) in token")
  ELSE IF MissingOrEmpty(decoded.roles) THEN InvalidResult("Missing or invalid roles in token")
  ELSE IF MissingOrEmpty(decoded.scopes) THEN InvalidResult("Missing or invalid scopes in token")
  ELSE IF ~Falsy(decoded.ip) /\ ~Falsy(sourceIp) /\ decoded.ip # sourceIp
    THEN InvalidResult("IP address mismatch")
  ELSE ValidResult(decoded.sub, decoded.roles.items, decoded.scopes.items)

\* The catch block rethrowing what is no jsonwebtoken error.
validateCatchRethrow(err) ==
  IF err.class = "TokenExpiredError" THEN Returned(InvalidResult("Token expired"))
  ELSE IF err.class = "NotBeforeError" THEN Returned(InvalidResult("Token not yet valid"))
  ELSE IF err.class = "JsonWebTokenError"
    THEN Returned(InvalidResult("Invalid token: " \o err.message))
  ELSE Thrown(err.class, err.message)

\* The catch block testing for JsonWebTokenError first (TokenExpiredError and
\* NotBeforeError are subclasses of it).
validateCatchGenericFirst(err) ==
  IF err.class \in {"JsonWebTokenError", "TokenExpiredError", "NotBeforeError"}
    THEN Returned(InvalidResult("Invalid token: " \o err.message))
  ELSE IF err.class = "TokenExpiredError" THEN Returned(InvalidResult("Token expired"))
  ELSE IF err.class = "NotBeforeError" THEN Returned(InvalidResult("Token not yet valid"))
  ELSE Returned(InvalidResult("Error validating token"))

\* The catch block appending the caught error's message to the last reason.
validateCatchLeaky(err) ==
  IF err.class = "TokenExpiredError" THEN Returned(InvalidResult("Token expired"))
  ELSE IF err.class = "NotBeforeError" THEN Returned(InvalidResult("Token not yet valid"))
  ELSE IF err.class = "JsonWebTokenError"
    THEN Returned(InvalidResult("Invalid token: " \o err.message))
  ELSE Returned(InvalidResult("Error validating token: " \o err.message))

\* validateToken, lines 59-70: the catch block.
validateCatch(err) ==
  IF err.class = "TokenExpiredError" THEN Returned(InvalidResult("Token expired"))
  ELSE IF err.class = "NotBeforeError" THEN Returned(InvalidResult("Token not yet valid"))
  ELSE IF err.class = "JsonWebTokenError"
    THEN Returned(InvalidResult("Invalid token: " \o err.message))
  ELSE Returned(InvalidResult("Error validating token"))

\* validateToken once getJwtSecret() has settled with `secret` (a value or a
\* thrown error), verifying at time t.
validateToken(secret, token, sourceIp, t) ==
  IF secret.threw THEN validateCatch(secret)
  ELSE LET v == jwtVerify(token, secret.value, t) IN
       IF v.threw THEN validateCatch(v)
       ELSE Returned(checkClaims(v.value, sourceIp))

\* ------------------------------------------------------- policy generator
\* Array.prototype.join(',')
RECURSIVE Join(_)
Join(items) ==
  IF Len(items) = 0 THEN ""
  ELSE IF Len(items) = 1 THEN items[1]
  ELSE items[1] \o "," \o Join(Tail(items))

\* Date.prototype.toISOString of the time t (one string per tick).
toISOString(t) == "T+" \o ToString(t)

\* The optional `context` property: no element when undefined, else the mapping.
NoContext == {}
Context(f) == {f}

\* generatePolicy
generatePolicy(principalId, effect, resource, context) ==
  [principalId |-> principalId,
   policyDocument |->
     [Version |-> "2012-10-17",
      Statement |-> <<[Action |-> "execute-api:Invoke", Effect |-> effect,
                       Resource |-> resource]>>],
   context |-> context]

\* generateAllowPolicy with roles and scopes exchanged in the context.
generateAllowPolicySwapped(userId, resource, roles, scopes, t) ==
  generatePolicy(userId, "Allow", resource,
    Context([userId |-> userId,
             roles |-> Join(scopes),
             scopes |-> Join(roles),
             userIdHeader |-> userId,
             authenticated |-> "true",
             timestamp |-> toISOString(t)]))

\* generateAllowPolicy, evaluated at time t
generateAllowPolicy(userId, resource, roles, scopes, t) ==
  generatePolicy(userId, "Allow", resource,
    Context([userId |-> userId,
             roles |-> Join(roles),
             scopes |-> Join(scopes),
             userIdHeader |-> userId,
             authenticated |-> "true",
             timestamp |-> toISOString(t)]))

\* generateDenyPolicy attaching a context.
generateDenyPolicyWithContext(userId, resource) ==
  generatePolicy(userId, "Deny", resource,
    Context([userId |-> userId,
             roles |-> "",
             scopes |-> "",
             userIdHeader |-> userId,
             authenticated |-> "false",
             timestamp |-> ""]))

\* generateDenyPolicy
generateDenyPolicy(userId, resource) == generatePolicy(userId, "Deny", resource, NoContext)

\* config.authorizer.denyAllPolicy
denyAllPolicy ==
  [Version |-> "2012-10-17",
   Statement |-> <<[Action |-> "execute-api:Invoke", Effect |-> "Deny", Resource |-> "*"]>>]

\* getDenyAllPolicy
getDenyAllPolicy ==
  [principalId |-> "anonymous", policyDocument |-> denyAllPolicy, context |-> NoContext]

\* --------------------------------------------------------------- handler
\* How an invocation ends: a decision returned to the front-end, or an
\* exception raised to it.
NoResult == [kind |-> "none", decision |-> getDenyAllPolicy]
ReturnedDecision(d) == [kind |-> "returned", decision |-> d]
RaisedException == [kind |-> "raised", decision |-> getDenyAllPolicy]

\* handler without its catch block: the exception reaches the front-end.
handlerRethrow == RaisedException

\* handler, lines 68-71: the catch block around the whole pipeline.
handlerCatch == ReturnedDecision(getDenyAllPolicy)

\* handler, lines 41-44: extraction ended without a usable token.
handlerNoToken(extracted) ==
  IF extracted.kind = "throw" THEN handlerCatch
  ELSE ReturnedDecision(getDenyAllPolicy)

\* handler passing the validation error on in the deny decision's context.
handlerDecideLeaky(validation, methodArn, t) ==
  IF validation.threw THEN handlerCatch
  ELSE IF ~validation.value.isValid
    THEN ReturnedDecision(
           generatePolicy("anonymous", "Deny", methodArn,
                          Context([error |-> validation.value.error])))
  ELSE ReturnedDecision(
         generateAllowPolicy(validation.value.userId, methodArn,
                             validation.value.roles, validation.value.scopes, t))

\* handler, lines 53-67: from the settled validateToken call to the decision.
handlerDecide(validation, methodArn, t) ==
  IF validation.threw THEN handlerCatch
  ELSE IF ~validation.value.isValid
    THEN ReturnedDecision(generateDenyPolicy("anonymous", methodArn))
  ELSE ReturnedDecision(
         generateAllowPolicy(validation.value.userId, methodArn,
                             validation.value.roles, validation.value.scopes, t))

\* ------------------------------------------------------------------ state
VARIABLES
  clock,        \* Date.now()
  nodeEnv,      \* process.env.NODE_ENV
  localSecret,  \* config.jwt.localSecret (LOCAL_JWT_SECRET)
  storeValue,   \* the secret store's current value for JwtSecretName
  rotations,    \* how often the store's value was rotated
  secretsCache, \* the module-level cache of secretsManager.ts
  inv,          \* per invocation slot: where the handler call stands
  invocations,  \* handler calls made so far
  fetches,      \* getSecretValue calls issued so far
  cacheOrigin   \* per cached name: when the getSecretValue call that filled
                \* the entry was issued (NoTime while there is no entry)

vars == <<clock, nodeEnv, localSecret, storeValue, rotations, secretsCache, inv,
          invocations, fetches, cacheOrigin>>

\* ---------------------------------------------------------- secrets cache
\* The names getSecret is called with.
SecretNames == {JwtSecretName, OtherSecretName}

\* secretsCache[name]: undefined, or {value, timestamp}.
NoEntry == [present |-> FALSE, value |-> "", timestamp |-> 0]
CacheEntry(v, ts) == [present |-> TRUE, value |-> v, timestamp |-> ts]

\* The expiry test with the boundary included.
cacheHitInclusive(cachedSecret, now) ==
  cachedSecret.present /\ now - cachedSecret.timestamp <= CacheExpiryMs

\* The expiry test inverted.
cacheHitInverted(cachedSecret, now) ==
  cachedSecret.present /\ now - cachedSecret.timestamp > CacheExpiryMs

\* The cache never consulted.
cacheHitNever(cachedSecret, now) == FALSE

\* getSecret, lines 49-52: the cached secret is there and not expired.
cacheHit(cachedSecret, now) ==
  cachedSecret.present /\ now - cachedSecret.timestamp < CacheExpiryMs

\* cacheStore replacing the value and keeping the entry's old timestamp.
cacheStoreValueOnly(cache, secretName, SecretString, now) ==
  [cache EXCEPT ![secretName] = CacheEntry(SecretString, cache[secretName].timestamp)]

\* cacheStore caching the secret's name in place of its value.
cacheStoreName(cache, secretName, SecretString, now) ==
  [cache EXCEPT ![secretName] = CacheEntry(secretName, now)]

\* cacheStore stamping the entry with the time of the write.
cacheStoreAtCompletion(cache, secretName, SecretString, now) ==
  [cache EXCEPT ![secretName] = CacheEntry(SecretString, clock)]

\* cacheStore writing the entry under every name of the cache.
cacheStoreAllNames(cache, secretName, SecretString, now) ==
  [n \in DOMAIN cache |-> CacheEntry(SecretString, now)]

\* getSecret, lines 65-68: cache the secret under the `now` read at line 47.
cacheStore(cache, secretName, SecretString, now) ==
  [cache EXCEPT ![secretName] = CacheEntry(SecretString, now)]

\* What the store client's getSecretValue call ends with.
NoResponse == [kind |-> "none", SecretString |-> ""]
StoreResponse(kind, current) ==
  CASE kind = "value" -> [kind |-> "value", SecretString |-> current]
    [] kind = "empty" -> [kind |-> "empty", SecretString |-> ""]
    [] OTHER -> [kind |-> "error", SecretString |-> ""]

\* getSecret without the test for an empty SecretString.
fetchSettlesUnchecked(response) ==
  IF response.kind = "error" THEN SecretThrown("getSecretValue failed")
  ELSE SecretOk(response.SecretString)

\* getSecret, lines 56-74: how the call settles on a response.
fetchSettles(response) ==
  IF response.kind = "error" THEN SecretThrown("getSecretValue failed")
  ELSE IF response.SecretString = "" THEN SecretThrown("Secret not found or has no value")
  ELSE SecretOk(response.SecretString)

\* ------------------------------------------------------------ invocations
\* useLocalSecrets with the environment test inverted.
useLocalSecretsInverted == nodeEnv = "production" /\ ~Falsy(localSecret)

\* useLocalSecrets without the environment test.
useLocalSecretsAnyEnv == ~Falsy(localSecret)

\* SecretsManagerService.useLocalSecrets
useLocalSecrets == nodeEnv # "production" /\ ~Falsy(localSecret)

\* A slot no handler call occupies.
IdleInvocation ==
  [pc |-> "idle", caller |-> "handler", header |-> NoHeader, methodArn |-> "",
   token |-> GoodToken, sourceIp |-> Absent, secretName |-> JwtSecretName,
   cachedSecret |-> NoEntry, hitOrigin |-> NoTime, now |-> 0,
   issued |-> FALSE, issuedAt |-> NoTime,
   response |-> NoResponse, secret |-> NoSecret,
   validation |-> InvalidResult(""), verifiedAt |-> 0, result |-> NoResult]

Init ==
  /\ clock = 0
  /\ nodeEnv \in {"production", "development"}
  /\ localSecret \in {Absent, LocalKey}
  /\ storeValue = "k1"
  /\ rotations = 0
  /\ secretsCache = [n \in SecretNames |-> NoEntry]
  /\ inv = [p \in Procs |-> IdleInvocation]
  /\ invocations = 0
  /\ fetches = 0
  /\ cacheOrigin = [n \in SecretNames |-> NoTime]

\* The store's current value for a name.
storeSecret(secretName) == IF secretName = JwtSecretName THEN storeValue ELSE OtherKey

\* getSecret, lines 41-43: the local secret is returned for this name.
localBypass(secretName) ==
  useLocalSecrets /\ secretName = JwtSecretName /\ ~Falsy(localSecret)

\* getSecret taking a lock that is never handed over: a call that finds the
\* fetch of another call in flight queues behind it.
getSecretBeginsQueued(p, call) ==
  LET cachedSecret == secretsCache[call.secretName] IN
  IF localBypass(call.secretName)
    THEN /\ inv' = [inv EXCEPT ![p] =
                      [call EXCEPT !.pc = "resolved", !.secret = SecretOk(localSecret)]]
         /\ fetches' = fetches
  ELSE IF cacheHit(cachedSecret, clock)
    THEN /\ inv' = [inv EXCEPT ![p] =
                      [call EXCEPT !.pc = "resolved",
                                   !.cachedSecret = cachedSecret, !.now = clock,
                                   !.hitOrigin = cacheOrigin[call.secretName],
                                   !.secret = SecretOk(cachedSecret.value)]]
         /\ fetches' = fetches
  ELSE IF \E q \in Procs \ {p} : inv[q].pc \in {"fetching", "served"}
    THEN /\ inv' = [inv EXCEPT ![p] =
                      [call EXCEPT !.pc = "queued",
                                   !.cachedSecret = cachedSecret, !.now = clock]]
         /\ fetches' = fetches
  ELSE /\ inv' = [inv EXCEPT ![p] =
                    [call EXCEPT !.pc = "fetching",
                                 !.cachedSecret = cachedSecret, !.now = clock,
                                 !.issued = TRUE, !.issuedAt = clock]]
       /\ fetches' = fetches + 1

\* getSecret(call.secretName) runs in slot p to its first suspension: up to
\* the return of the local secret or of a live cache entry, or up to the
\* getSecretValue call.
getSecretBegins(p, call) ==
  LET cachedSecret == secretsCache[call.secretName] IN
  IF localBypass(call.secretName)
    THEN /\ inv' = [inv EXCEPT ![p] =
                      [call EXCEPT !.pc = "resolved", !.secret = SecretOk(localSecret)]]
         /\ fetches' = fetches
  ELSE IF cacheHit(cachedSecret, clock)
    THEN /\ inv' = [inv EXCEPT ![p] =
                      [call EXCEPT !.pc = "resolved",
                                   !.cachedSecret = cachedSecret, !.now = clock,
                                   !.hitOrigin = cacheOrigin[call.secretName],
                                   !.secret = SecretOk(cachedSecret.value)]]
         /\ fetches' = fetches
  ELSE /\ inv' = [inv EXCEPT ![p] =
                    [call EXCEPT !.pc = "fetching",
                                 !.cachedSecret = cachedSecret, !.now = clock,
                                 !.issued = TRUE, !.issuedAt = clock]]
       /\ fetches' = fetches + 1

\* validateToken(call.token, call.sourceIp) runs in slot p to its first
\* suspension: getJwtSecret -> getSecret(config.jwt.secretName).
validateTokenBegins(p, call) ==
  getSecretBegins(p, [call EXCEPT !.secretName = JwtSecretName])

\* handler taking the origin address from the request.
handlerSourceIpFromRequest == "5.6.7.8"

\* handler, line 50: const sourceIp = undefined
handlerSourceIp == Absent

\* handler is called with event {authorizationToken: h, methodArn: arn} and runs
\* to its first suspension: extractToken, then validateToken(token, undefined).
Invoke(p, h, arn) ==
  /\ inv[p].pc = "idle"
  /\ invocations < MaxInvocations
  /\ invocations' = invocations + 1
  /\ LET extracted == extractToken(h)
         call == [IdleInvocation EXCEPT !.header = h, !.methodArn = arn]
     IN
     IF extracted.kind # "token"
       THEN /\ inv' = [inv EXCEPT ![p] =
                         [call EXCEPT !.pc = "done", !.result = handlerNoToken(extracted)]]
            /\ fetches' = fetches
       ELSE validateTokenBegins(p, [call EXCEPT !.token = extracted.token,
                                                !.sourceIp = handlerSourceIp])
  /\ UNCHANGED <<clock, nodeEnv, localSecret, storeValue, rotations, secretsCache,
                 cacheOrigin>>

\* tokenValidator.validateToken(token, sourceIp) is called by a caller other
\* than handler and runs to its first suspension.
Validate(p, token, sourceIp) ==
  /\ inv[p].pc = "idle"
  /\ invocations < MaxInvocations
  /\ invocations' = invocations + 1
  /\ validateTokenBegins(p, [IdleInvocation EXCEPT !.caller = "validateToken",
                                                   !.token = token,
                                                   !.sourceIp = sourceIp])
  /\ UNCHANGED <<clock, nodeEnv, localSecret, storeValue, rotations, secretsCache,
                 cacheOrigin>>

\* getSecret(secretName) is called by a caller other than validateToken and runs
\* to its first suspension.
GetSecret(p, secretName) ==
  /\ inv[p].pc = "idle"
  /\ invocations < MaxInvocations
  /\ invocations' = invocations + 1
  /\ getSecretBegins(p, [IdleInvocation EXCEPT !.caller = "getSecret",
                                               !.secretName = secretName])
  /\ UNCHANGED <<clock, nodeEnv, localSecret, storeValue, rotations, secretsCache,
                 cacheOrigin>>

\* The store answers the getSecretValue call of p: its current value, an empty
\* value, or an error. The answer is then on its way back.
Serve(p, kind) ==
  /\ inv[p].pc = "fetching"
  /\ inv' = [inv EXCEPT ![p].pc = "served",
                        ![p].response =
                           StoreResponse(kind, storeSecret(inv[p].secretName))]
  /\ UNCHANGED <<clock, nodeEnv, localSecret, storeValue, rotations, secretsCache,
                 invocations, fetches, cacheOrigin>>

\* Deliver caching the failure: an empty entry is written when the fetch fails.
DeliverCachesFailure(p) ==
  /\ inv[p].pc = "served"
  /\ LET settled == fetchSettles(inv[p].response) IN
     /\ inv' = [inv EXCEPT ![p].pc = "resolved", ![p].secret = settled]
     /\ secretsCache' =
          cacheStore(secretsCache, inv[p].secretName, settled.value, inv[p].now)
     /\ cacheOrigin' = [cacheOrigin EXCEPT ![inv[p].secretName] = inv[p].issuedAt]
  /\ UNCHANGED <<clock, nodeEnv, localSecret, storeValue, rotations, invocations, fetches>>

\* Deliver retrying: a failed fetch is issued again.
DeliverRetries(p) ==
  /\ inv[p].pc = "served"
  /\ LET settled == fetchSettles(inv[p].response) IN
     /\ inv' = IF settled.threw
                 THEN [inv EXCEPT ![p].pc = "fetching", ![p].response = NoResponse]
                 ELSE [inv EXCEPT ![p].pc = "resolved", ![p].secret = settled]
     /\ fetches' = IF settled.threw THEN fetches + 1 ELSE fetches
     /\ secretsCache' =
          IF settled.threw THEN secretsCache
          ELSE cacheStore(secretsCache, inv[p].secretName, settled.value, inv[p].now)
     /\ cacheOrigin' =
          IF settled.threw THEN cacheOrigin
          ELSE [cacheOrigin EXCEPT ![inv[p].secretName] = inv[p].issuedAt]
  /\ UNCHANGED <<clock, nodeEnv, localSecret, storeValue, rotations, invocations>>

\* The awaited getSecretValue call of p settles: getSecret caches and returns the
\* secret, or throws.
Deliver(p) ==
  /\ inv[p].pc = "served"
  /\ LET settled == fetchSettles(inv[p].response) IN
     /\ inv' = [inv EXCEPT ![p].pc = "resolved", ![p].secret = settled]
     /\ secretsCache' =
          IF settled.threw THEN secretsCache
          ELSE cacheStore(secretsCache, inv[p].secretName, settled.value, inv[p].now)
     /\ cacheOrigin' =
          IF settled.threw THEN cacheOrigin
          ELSE [cacheOrigin EXCEPT ![inv[p].secretName] = inv[p].issuedAt]
  /\ UNCHANGED <<clock, nodeEnv, localSecret, storeValue, rotations, invocations, fetches>>

\* The settled getSecret call returns to its caller: validateToken resumes with
\* the secret, verifies and checks the token and returns; when handler made the
\* call, handler returns its decision. A direct caller of getSecret has its
\* answer.
Complete(p) ==
  /\ inv[p].pc = "resolved"
  /\ LET validation ==
           validateToken(inv[p].secret, inv[p].token, inv[p].sourceIp, clock)
     IN
     inv' = [inv EXCEPT ![p].pc = "done",
                        ![p].validation =
                           IF inv[p].caller = "getSecret" THEN inv[p].validation
                           ELSE validation.value,
                        ![p].verifiedAt = clock,
                        ![p].result =
                           IF inv[p].caller = "handler"
                             THEN handlerDecide(validation, inv[p].methodArn, clock)
                             ELSE NoResult]
  /\ UNCHANGED <<clock, nodeEnv, localSecret, storeValue, rotations, secretsCache,
                 invocations, fetches, cacheOrigin>>

\* The front-end has taken the decision; the slot is free for the next call.
Return(p) ==
  /\ inv[p].pc = "done"
  /\ inv' = [inv EXCEPT ![p] = IdleInvocation]
  /\ UNCHANGED <<clock, nodeEnv, localSecret, storeValue, rotations, secretsCache,
                 invocations, fetches, cacheOrigin>>

\* Time passes.
Tick ==
  /\ clock < MaxClock
  /\ clock' = clock + 1
  /\ UNCHANGED <<nodeEnv, localSecret, storeValue, rotations, secretsCache, inv,
                 invocations, fetches, cacheOrigin>>

\* The secret is rotated in the store.
Rotate ==
  /\ rotations < MaxRotations
  /\ rotations' = rotations + 1
  /\ storeValue' \in StoreKeys \ {storeValue}
  /\ UNCHANGED <<clock, nodeEnv, localSecret, secretsCache, inv, invocations, fetches,
                 cacheOrigin>>

ResponseKinds == {"value", "empty", "error"}

\* The requests of concurrent invocations: no credential, or a Bearer token.
CoreHeaders == {NoHeader} \cup {StringHeader("Bearer", 1, t) : t \in CoreTokens}

\* The store is used: production mode, no LOCAL_JWT_SECRET.
InitProduction == Init /\ nodeEnv = "production" /\ localSecret = Absent

\* Concurrent invocations sharing the cache.
Next ==
  \/ \E p \in Procs, h \in CoreHeaders : Invoke(p, h, CoreArn)
  \/ \E p \in Procs, kind \in ResponseKinds : Serve(p, kind)
  \/ \E p \in Procs : Deliver(p)
  \/ \E p \in Procs : Complete(p)
  \/ \E p \in Procs : Return(p)
  \/ Tick
  \/ Rotate

Spec == InitProduction /\ [][Next]_vars

\* The same invocations where every fetch is answered in the end (the store
\* client's own timeout) and the event loop runs every continuation that is
\* ready: the settling of an answered fetch, and the rest of handler.
Fairness ==
  \A p \in Procs :
    /\ WF_vars(\E kind \in ResponseKinds : Serve(p, kind))
    /\ WF_vars(Deliver(p))
    /\ WF_vars(Complete(p))

\* Time stands still here: whether a call finds a live entry or fetches is
\* decided by the fetches that succeeded or failed before it.
NextLive ==
  \/ \E p \in Procs, h \in CoreHeaders : Invoke(p, h, CoreArn)
  \/ \E p \in Procs, kind \in ResponseKinds : Serve(p, kind)
  \/ \E p \in Procs : Deliver(p)
  \/ \E p \in Procs : Complete(p)
  \/ \E p \in Procs : Return(p)
  \/ Rotate

SpecLive == InitProduction /\ [][NextLive]_vars /\ Fairness

\* One invocation at a time, over every token of Tokens.
NextHandler ==
  \/ \E h \in HeadersOver(Tokens), arn \in MethodArns : Invoke("p1", h, arn)
  \/ \E kind \in ResponseKinds : Serve("p1", kind)
  \/ Deliver("p1")
  \/ Complete("p1")
  \/ Return("p1")
  \/ Tick
  \/ Rotate

SpecHandler == Init /\ [][NextHandler]_vars

\* One direct call of validateToken, over ValidateTokens and SourceIps.
NextValidate ==
  \/ \E token \in ValidateTokens, sourceIp \in SourceIps : Validate("p1", token, sourceIp)
  \/ \E kind \in ResponseKinds : Serve("p1", kind)
  \/ Deliver("p1")
  \/ Complete("p1")
  \/ Tick
  \/ Rotate

SpecValidate == InitProduction /\ [][NextValidate]_vars

\* Two concurrent direct calls of getSecret, each for either name, in every mode.
NextSecrets ==
  \/ \E p \in Procs, secretName \in SecretNames : GetSecret(p, secretName)
  \/ \E p \in Procs, kind \in ResponseKinds : Serve(p, kind)
  \/ \E p \in Procs : Deliver(p)
  \/ \E p \in Procs : Complete(p)
  \/ Tick
  \/ Rotate

SpecSecrets == Init /\ [][NextSecrets]_vars

\* ================================================================ claims
Done(p) == inv[p].pc = "done"
Decision(p) == inv[p].result.decision
Statement(p) == Decision(p).policyDocument.Statement[1]

\* The header is a string of the form `Bearer <token>` (prefix in any case, at
\* least one whitespace, a non-empty rest).
IsBearerCredential(h) ==
  /\ h.type = "string"
  /\ h.scheme \in {"Bearer", "bearer", "BEARER"}
  /\ h.ws >= 1
  /\ h.hasRest

\* The header is absent or a string that is not of that form.
IsNoCredential(h) == h.type \in {"undefined", "string"} /\ ~IsBearerCredential(h)

\* The store answered the call of p with an error or an empty value.
StoreFailed(p) == inv[p].issued /\ inv[p].response.kind \in {"empty", "error"}

\* The decision is the global deny-all.
IsDenyAll(d) ==
  /\ d.principalId = "anonymous"
  /\ d.policyDocument.Statement =
       <<[Action |-> "execute-api:Invoke", Effect |-> "Deny", Resource |-> "*"]>>
  /\ d.context = {}

\* The decision denies the one resource to the anonymous principal.
IsAnonymousDeny(d, resource) ==
  /\ d.principalId = "anonymous"
  /\ d.policyDocument.Statement =
       <<[Action |-> "execute-api:Invoke", Effect |-> "Deny", Resource |-> resource]>>
  /\ d.context = {}

\* C1: every finished invocation has returned a decision with one statement
\* whose Effect is Allow or Deny, never raised an exception, and an exception
\* inside the pipeline (extraction throwing on a non-string header) ends in the
\* global deny-all.
C1_AlwaysADecision ==
  \A p \in Procs :
    Done(p) =>
      /\ inv[p].result.kind = "returned"
      /\ Decision(p).principalId # Absent
      /\ Decision(p).policyDocument.Version = "2012-10-17"
      /\ Len(Decision(p).policyDocument.Statement) = 1
      /\ Statement(p).Effect \in {"Allow", "Deny"}
      /\ (inv[p].header.type = "number" => IsDenyAll(Decision(p)))

C1_Witness ==
  \E p \in Procs :
    /\ Done(p)
    /\ inv[p].header.type = "number"
    /\ inv[p].result.kind = "returned"
    /\ IsDenyAll(Decision(p))

\* What C2 requires of an allowed request: a Bearer token that verifies under
\* the key the resolver returned, in its validity period at verification time,
\* with the configured issuer and audience and non-empty subject, roles, scopes.
AllowConditions(p) ==
  LET tok == inv[p].header.rest IN
  /\ IsBearerCredential(inv[p].header)
  /\ ~inv[p].secret.threw
  /\ tok.form = "ok"
  /\ tok.alg = "HS256"
  /\ tok.sig = inv[p].secret.value
  /\ (tok.exp = NoTime \/ inv[p].verifiedAt < tok.exp)
  /\ (tok.nbf = NoTime \/ tok.nbf <= inv[p].verifiedAt)
  /\ tok.iss = "magento"
  /\ tok.aud = "api-gateway"
  /\ tok.sub \notin {Absent, ""}
  /\ tok.roles.kind = "array" /\ tok.roles.items # <<>>
  /\ tok.scopes.kind = "array" /\ tok.scopes.items # <<>>

\* C2: a returned Allow is for the request's resource and the token's subject
\* and only under AllowConditions; every other finished invocation returns Deny.
C2_AllowOnlyIfValid ==
  \A p \in Procs :
    Done(p) =>
      /\ (Statement(p).Effect = "Allow" =>
            /\ AllowConditions(p)
            /\ Decision(p).principalId = inv[p].header.rest.sub
            /\ Statement(p).Resource = inv[p].methodArn)
      /\ (~AllowConditions(p) => Statement(p).Effect = "Deny")

C2_Witness ==
  \E p \in Procs :
    /\ Done(p)
    /\ Statement(p).Effect = "Allow"
    /\ Statement(p).Resource = inv[p].methodArn
    /\ AllowConditions(p)

\* The key the validator is configured to use at this moment: the local secret
\* in local mode, otherwise the store's current value.
CurrentKey == IF useLocalSecrets THEN localSecret ELSE storeValue

\* A well-formed token with every claim in order, leaving open which key signed it.
TokenInOrder(p) ==
  LET tok == inv[p].header.rest IN
  /\ IsBearerCredential(inv[p].header)
  /\ tok.form = "ok"
  /\ tok.alg = "HS256"
  /\ (tok.exp = NoTime \/ inv[p].verifiedAt < tok.exp)
  /\ (tok.nbf = NoTime \/ tok.nbf <= inv[p].verifiedAt)
  /\ tok.iss = "magento"
  /\ tok.aud = "api-gateway"
  /\ tok.sub \notin {Absent, ""}
  /\ tok.roles.kind = "array" /\ tok.roles.items # <<>>
  /\ tok.scopes.kind = "array" /\ tok.scopes.items # <<>>

\* The validation is Valid with the token's own subject, roles and scopes, and
\* the decision is Allow for the request's resource, with the context carrying
\* the given keys and the comma-joined roles and scopes (every token in order
\* carries the roles <<"customer", "admin">> and the scopes <<"write", "read">>).
AllowsWithContext(p, keys) ==
  LET tok == inv[p].header.rest IN
  /\ inv[p].validation.isValid
  /\ inv[p].validation.userId = tok.sub
  /\ inv[p].validation.roles = tok.roles.items
  /\ inv[p].validation.scopes = tok.scopes.items
  /\ Decision(p).principalId = tok.sub
  /\ Statement(p).Effect = "Allow"
  /\ Statement(p).Resource = inv[p].methodArn
  /\ Cardinality(Decision(p).context) = 1
  /\ \A c \in Decision(p).context :
       /\ DOMAIN c = keys
       /\ c.userId = tok.sub
       /\ c.roles = "customer,admin"
       /\ c.scopes = "write,read"
       /\ c.authenticated = "true"
       /\ c.timestamp = toISOString(inv[p].verifiedAt)

\* C3 as amended: a token in order, signed with the key the Credential Resolver
\* returned for this validation, is Valid with its own subject, roles and scopes
\* and allowed for the request's resource; the context has exactly the keys
\* userId, roles, scopes, userIdHeader, authenticated, timestamp, with
\* userIdHeader a second copy of the subject.
C3_ValidTokenAllowed ==
  \A p \in Procs :
    (Done(p) /\ TokenInOrder(p) /\ ~inv[p].secret.threw
       /\ inv[p].header.rest.sig = inv[p].secret.value) =>
      /\ AllowsWithContext(p, {"userId", "roles", "scopes", "userIdHeader",
                               "authenticated", "timestamp"})
      /\ \A c \in Decision(p).context : c.userIdHeader = inv[p].header.rest.sub

C3_Witness ==
  \E p \in Procs :
    /\ Done(p) /\ TokenInOrder(p) /\ ~inv[p].secret.threw
    /\ inv[p].header.rest.sig = inv[p].secret.value
    /\ inv[p].issued
    /\ Statement(p).Effect = "Allow"

\* C3 as claimed: a token in order signed with the current key is allowed with
\* a context of exactly principal, roles, scopes, authenticated, timestamp.
C3_Original ==
  \A p \in Procs :
    (Done(p) /\ TokenInOrder(p) /\ inv[p].header.rest.sig = CurrentKey) =>
      AllowsWithContext(p, {"userId", "roles", "scopes", "authenticated", "timestamp"})

\* C4: with no credential (header absent or not `Bearer <token>`) the decision
\* is the global deny-all, and neither the cache nor the store nor the validator
\* was consulted.
C4_NoCredentialDenyAll ==
  \A p \in Procs :
    (inv[p].pc # "idle" /\ IsNoCredential(inv[p].header)) =>
      /\ Done(p)
      /\ inv[p].result.kind = "returned"
      /\ IsDenyAll(Decision(p))
      /\ ~inv[p].issued
      /\ inv[p].secret = NoSecret
      /\ inv[p].cachedSecret = NoEntry
      /\ inv[p].response = NoResponse

C4_Witness ==
  \E p \in Procs :
    /\ Done(p)
    /\ inv[p].header.type = "string" /\ inv[p].header.scheme = "Basic"
    /\ IsDenyAll(Decision(p))

\* C5 as amended: a token signed with a key other than the one the Credential
\* Resolver returned for this validation (the cached value while the entry is
\* unexpired, else the value fetched) is Invalid, and the decision is Deny for
\* the request's resource with principal "anonymous".
C5_ForeignSignatureDenied ==
  \A p \in Procs :
    (Done(p) /\ IsBearerCredential(inv[p].header) /\ ~inv[p].secret.threw
       /\ inv[p].header.rest.sig # inv[p].secret.value) =>
      /\ ~inv[p].validation.isValid
      /\ inv[p].result.kind = "returned"
      /\ IsAnonymousDeny(Decision(p), inv[p].methodArn)

\* A token signed with the store's current key is denied on a cache hit that
\* still holds the value from before the rotation.
C5_Witness ==
  \E p \in Procs :
    /\ Done(p) /\ IsBearerCredential(inv[p].header)
    /\ ~inv[p].issued /\ inv[p].cachedSecret.present
    /\ inv[p].secret.value # storeValue
    /\ inv[p].header.rest.sig = storeValue
    /\ inv[p].header.rest.sig # inv[p].secret.value
    /\ IsAnonymousDeny(Decision(p), inv[p].methodArn)

\* C5 as claimed, in the case it names (an older value still held in the
\* cache): whenever a validation that took its key from the cache completes on a
\* token signed with a key other than the store's current value, the outcome is
\* Invalid and the decision an anonymous Deny.
C5_Original ==
  [][\A p \in Procs :
       (/\ inv[p].pc = "resolved" /\ inv'[p].pc = "done"
        /\ ~useLocalSecrets /\ ~inv[p].issued
        /\ IsBearerCredential(inv[p].header)
        /\ inv[p].header.rest.sig # storeValue) =>
         /\ ~inv'[p].validation.isValid
         /\ IsAnonymousDeny(inv'[p].result.decision, inv[p].methodArn)]_vars

\* C8: when the store fetch of a validation errors or returns an empty value,
\* the outcome is Invalid and handler returns (not raises) Deny for the
\* request's own resource with principal "anonymous" and no context.
C8_StoreFailureDeniesResource ==
  \A p \in Procs :
    (Done(p) /\ StoreFailed(p)) =>
      /\ ~inv[p].validation.isValid
      /\ inv[p].result.kind = "returned"
      /\ IsAnonymousDeny(Decision(p), inv[p].methodArn)
      /\ Statement(p).Resource # "*"

C8_Witness ==
  \E p \in Procs :
    /\ Done(p) /\ StoreFailed(p)
    /\ inv[p].response.kind = "empty"
    /\ inv[p].header.rest = GoodToken
    /\ IsAnonymousDeny(Decision(p), inv[p].methodArn)

\* The getSecret call of p has settled (returned or thrown).
SecretSettled(p) == inv[p].pc \in {"resolved", "done"} /\ IsBearerCredential(inv[p].header)

\* The cache entry the getSecret call of p returned from, or wrote.
EntryObtained(p) ==
  IF inv[p].issued THEN CacheEntry(inv[p].secret.value, inv[p].now)
  ELSE inv[p].cachedSecret

\* p obtained a cache entry, and q began later, found that very entry in the
\* cache, and found it within the TTL.
FollowsWithinTtl(p, q) ==
  /\ p # q
  /\ SecretSettled(p) /\ ~inv[p].secret.threw
  /\ inv[q].pc \notin {"idle"} /\ IsBearerCredential(inv[q].header)
  /\ EntryObtained(p).present
  /\ inv[q].cachedSecret = EntryObtained(p)
  /\ inv[q].now - EntryObtained(p).timestamp < CacheExpiryMs

\* C6 as amended: two validations of the same token, valid at both times, where
\* the second begins after the first's key is in the cache and within that
\* entry's TTL, have identical outcomes and the second issues no fetch (at most
\* one fetch for the pair). Validations that begin before a pending fetch has
\* completed each issue their own fetch.
C6_SecondWithinTtlNoFetch ==
  \A p, q \in Procs :
    (/\ FollowsWithinTtl(p, q)
     /\ Done(p) /\ Done(q)
     /\ inv[p].header.rest = inv[q].header.rest
     /\ inv[p].validation.isValid
     /\ (inv[q].header.rest.exp = NoTime \/ inv[q].verifiedAt < inv[q].header.rest.exp)) =>
      /\ ~inv[q].issued
      /\ inv[q].validation = inv[p].validation
      /\ Cardinality({r \in {p, q} : inv[r].issued}) <= 1

C6_Witness ==
  \E p, q \in Procs :
    /\ FollowsWithinTtl(p, q)
    /\ Done(p) /\ Done(q)
    /\ inv[p].header.rest = inv[q].header.rest
    /\ inv[p].issued /\ ~inv[q].issued
    /\ inv[p].validation.isValid /\ inv[q].validation = inv[p].validation
    /\ fetches = 1

\* C6 as claimed: two validations of the same valid token begun within the
\* cache TTL of each other have identical outcomes and issue at most one fetch
\* between them.
C6_Original ==
  \A p, q \in Procs :
    (/\ p # q /\ Done(p) /\ Done(q)
     /\ IsBearerCredential(inv[p].header) /\ IsBearerCredential(inv[q].header)
     /\ inv[p].header.rest = inv[q].header.rest
     /\ inv[p].validation.isValid /\ inv[q].validation.isValid
     /\ inv[q].now - inv[p].now < CacheExpiryMs
     /\ inv[p].now - inv[q].now < CacheExpiryMs) =>
      /\ inv[q].validation = inv[p].validation
      /\ ~(inv[p].issued /\ inv[q].issued)

\* C7 as amended: once a validation has refreshed the entry, a validation that
\* begins afterwards, finds that entry and is within its TTL issues no fetch.
\* Validations that begin on the expired entry before a refresh has completed
\* each issue their own fetch.
C7_NoFetchAfterRefresh ==
  \A p, q \in Procs :
    (FollowsWithinTtl(p, q) /\ inv[p].issued) => ~inv[q].issued

\* The entry had expired, p refreshed it, and q then used the new entry.
C7_Witness ==
  \E p, q \in Procs :
    /\ FollowsWithinTtl(p, q)
    /\ inv[p].issued /\ inv[p].cachedSecret.present
    /\ inv[p].now - inv[p].cachedSecret.timestamp >= CacheExpiryMs
    /\ ~inv[q].issued /\ inv[q].secret = inv[p].secret

\* C7 as claimed: the validations that find one expired entry issue exactly one
\* fetch between them.
C7_Original ==
  \A p, q \in Procs :
    (/\ p # q
     /\ inv[p].issued /\ inv[q].issued
     /\ inv[p].cachedSecret.present
     /\ inv[p].now - inv[p].cachedSecret.timestamp >= CacheExpiryMs) =>
      inv[q].cachedSecret # inv[p].cachedSecret

\* C9: a getSecret call on a missing or expired entry whose fetch errors or
\* returns an empty value throws; a call that returns yields a non-empty value,
\* the fetched one if it fetched and otherwise that of an unexpired entry.
C9_FailedFetchThrows ==
  \A p \in Procs :
    SecretSettled(p) =>
      /\ (StoreFailed(p) => inv[p].secret.threw /\ inv[p].secret.value = "")
      /\ (~inv[p].secret.threw =>
            /\ inv[p].secret.value # ""
            /\ (inv[p].issued =>
                  /\ inv[p].response.kind = "value"
                  /\ inv[p].secret.value = inv[p].response.SecretString)
            /\ (~inv[p].issued /\ ~useLocalSecrets =>
                  /\ inv[p].cachedSecret.present
                  /\ inv[p].now - inv[p].cachedSecret.timestamp < CacheExpiryMs
                  /\ inv[p].secret.value = inv[p].cachedSecret.value))

\* An expired entry was in the cache, the fetch failed, and the call threw.
C9_Witness ==
  \E p \in Procs :
    /\ SecretSettled(p) /\ StoreFailed(p)
    /\ inv[p].cachedSecret.present
    /\ inv[p].now - inv[p].cachedSecret.timestamp >= CacheExpiryMs
    /\ inv[p].secret.threw

\* C10: a getSecret call that finds an entry with now - timestamp below the
\* expiry returns the entry's value, issues no fetch and leaves the cache as it
\* was; with now - timestamp equal to the expiry it issues a fetch.
C10_CacheHitFrame ==
  [][\A p \in Procs :
       LET entry == secretsCache[JwtSecretName] IN
       (/\ inv[p].pc = "idle" /\ inv'[p].pc # "idle"
        /\ IsBearerCredential(inv'[p].header)
        /\ ~useLocalSecrets
        /\ entry.present) =>
         /\ (clock - entry.timestamp < CacheExpiryMs =>
               /\ inv'[p].pc = "resolved"
               /\ inv'[p].secret = SecretOk(entry.value)
               /\ ~inv'[p].issued
               /\ fetches' = fetches
               /\ secretsCache' = secretsCache)
         /\ (clock - entry.timestamp = CacheExpiryMs =>
               /\ inv'[p].pc = "fetching"
               /\ inv'[p].issued
               /\ fetches' = fetches + 1)]_vars

\* One call has returned from an unexpired entry while another, begun exactly
\* at the entry's expiry, is fetching.
C10_Witness ==
  \E p, q \in Procs :
    /\ SecretSettled(p) /\ ~inv[p].issued /\ inv[p].cachedSecret.present
    /\ inv[p].now - inv[p].cachedSecret.timestamp < CacheExpiryMs
    /\ inv[p].secret.value = inv[p].cachedSecret.value
    /\ inv[q].pc = "fetching" /\ inv[q].cachedSecret.present
    /\ inv[q].now - inv[q].cachedSecret.timestamp = CacheExpiryMs

\* ------------------------------------------------- validateToken, directly
\* A validateToken call has returned in slot p.
Validated(p) == inv[p].pc = "done" /\ inv[p].caller = "validateToken"

\* The token of p is well-formed and signed, with the configured algorithm,
\* under the key the resolver returned to p.
CorrectlySigned(p) ==
  /\ ~inv[p].secret.threw
  /\ inv[p].token.form = "ok"
  /\ inv[p].token.alg = JwtAlgorithm
  /\ inv[p].token.sig = inv[p].secret.value

\* The validity window of p's token at the time it was verified.
ExpInPast(p) == inv[p].token.exp # NoTime /\ inv[p].token.exp <= inv[p].verifiedAt
NbfInFuture(p) == inv[p].token.nbf # NoTime /\ inv[p].token.nbf > inv[p].verifiedAt

\* C11 (as amended): a correctly signed token whose nbf is in the future yields
\* exactly Invalid("Token not yet valid"), also when its exp is in the past; a
\* correctly signed token whose exp is in the past and whose nbf is not in the
\* future yields exactly Invalid("Token expired"); neither is reported with the
\* generic "Invalid token: <detail>" reason, whatever else is wrong with the
\* token's audience, issuer or payload claims.
C11_WindowReasons ==
  \A p \in Procs :
    Validated(p) /\ CorrectlySigned(p) =>
      /\ NbfInFuture(p) => inv[p].validation = InvalidResult("Token not yet valid")
      /\ ExpInPast(p) /\ ~NbfInFuture(p) =>
            inv[p].validation = InvalidResult("Token expired")

\* C11 witness: an expired, correctly signed token that also has the wrong
\* audience was reported as expired.
C11_Witness ==
  \E p \in Procs :
    /\ Validated(p) /\ CorrectlySigned(p)
    /\ ExpInPast(p) /\ ~NbfInFuture(p)
    /\ inv[p].token.aud # JwtAudience
    /\ inv[p].validation = InvalidResult("Token expired")

\* C11 as stated: every correctly signed token whose exp is in the past yields
\* "Token expired", and every one whose nbf is in the future "Token not yet
\* valid".
C11_Original ==
  \A p \in Procs :
    Validated(p) /\ CorrectlySigned(p) =>
      /\ ExpInPast(p) => inv[p].validation = InvalidResult("Token expired")
      /\ NbfInFuture(p) => inv[p].validation = InvalidResult("Token not yet valid")

\* The token of p passes jwt.verify under the key the resolver returned to p.
VerifyPasses(p) ==
  /\ CorrectlySigned(p)
  /\ ~ExpInPast(p) /\ ~NbfInFuture(p)
  /\ inv[p].token.aud = JwtAudience
  /\ inv[p].token.iss = JwtIssuer

\* The defects of the payload claims.
NoSubject(t) == t.sub \in {Absent, ""}
NoList(c) == c.kind # "array" \/ c.items = <<>>

SubjectReason == "Missing subject (user ID) in token"
RolesReason == "Missing or invalid roles in token"
ScopesReason == "Missing or invalid scopes in token"

\* C12: on a token that passes cryptographic verification the checks run in the
\* order subject, roles, scopes and stop at the first failure: a missing or
\* empty subject yields Invalid with the subject reason; otherwise roles that are
\* missing, no array or empty yield the roles reason; otherwise such scopes yield
\* the scopes reason; with none of these defects none of the three reasons is
\* given.
C12_FirstDefectReported ==
  \A p \in Procs :
    Validated(p) /\ VerifyPasses(p) =>
      LET t == inv[p].token IN
      IF NoSubject(t) THEN inv[p].validation = InvalidResult(SubjectReason)
      ELSE IF NoList(t.roles) THEN inv[p].validation = InvalidResult(RolesReason)
      ELSE IF NoList(t.scopes) THEN inv[p].validation = InvalidResult(ScopesReason)
      ELSE inv[p].validation.error \notin {SubjectReason, RolesReason, ScopesReason}

\* C12 witness: a verified token with a subject whose roles and scopes are both
\* defective was rejected for its roles.
C12_Witness ==
  \E p \in Procs :
    /\ Validated(p) /\ VerifyPasses(p)
    /\ ~NoSubject(inv[p].token)
    /\ NoList(inv[p].token.roles) /\ NoList(inv[p].token.scopes)
    /\ inv[p].validation = InvalidResult(RolesReason)

\* The token of p is valid but for its origin binding: it passes jwt.verify and
\* has a subject, roles and scopes.
OtherwiseValid(p) ==
  /\ VerifyPasses(p)
  /\ ~NoSubject(inv[p].token)
  /\ ~NoList(inv[p].token.roles)
  /\ ~NoList(inv[p].token.scopes)

\* An address is given (an absent or empty one is not).
HasIp(x) == x # Absent /\ x # ""

\* The token of p binds an address, one was passed to validateToken, and the
\* two differ.
IpDiffers(p) ==
  /\ HasIp(inv[p].token.ip)
  /\ HasIp(inv[p].sourceIp)
  /\ inv[p].token.ip # inv[p].sourceIp

\* C13: validateToken(token, originIp) yields Invalid("IP address mismatch")
\* exactly when the token is otherwise valid, carries a bound ip, an origin ip
\* was supplied and the two differ; when either is absent (or they agree) the
\* check is skipped and the otherwise valid token yields Valid with its
\* subject, roles and scopes.
C13_IpMismatchIff ==
  \A p \in Procs :
    Validated(p) =>
      /\ inv[p].validation = InvalidResult("IP address mismatch")
            <=> (OtherwiseValid(p) /\ IpDiffers(p))
      /\ OtherwiseValid(p) /\ ~IpDiffers(p) =>
            inv[p].validation =
              ValidResult(inv[p].token.sub, inv[p].token.roles.items,
                          inv[p].token.scopes.items)

\* C13 witness: an otherwise valid token bound to one address was validated
\* against another and rejected for the mismatch.
C13_Witness ==
  \E p \in Procs :
    /\ Validated(p) /\ OtherwiseValid(p) /\ IpDiffers(p)
    /\ inv[p].validation = InvalidResult("IP address mismatch")

\* ------------------------------------------------------- rejected requests
\* handler has finished in slot p on a request whose token validateToken
\* rejected.
Rejected(p) ==
  /\ Done(p)
  /\ inv[p].caller = "handler"
  /\ IsBearerCredential(inv[p].header)
  /\ ~inv[p].validation.isValid

\* C14: the failure reason is not returned: the decision on a rejected request
\* is the same for every reason (bad signature, expired, not yet valid, missing
\* subject, empty roles, empty scopes, key unavailable): principal "anonymous",
\* Deny for the requested resource, no context; so two requests for the same
\* resource rejected for different reasons receive identical decisions.
C14_ReasonNotReturned ==
  \A p \in Procs :
    Rejected(p) =>
      /\ inv[p].result.kind = "returned"
      /\ Decision(p) =
           [principalId |-> "anonymous",
            policyDocument |->
              [Version |-> "2012-10-17",
               Statement |-> <<[Action |-> "execute-api:Invoke", Effect |-> "Deny",
                                Resource |-> inv[p].methodArn]>>],
            context |-> {}]

\* C14 witness: a request rejected because its token had expired received the
\* anonymous Deny for its resource, without context.
C14_Witness ==
  \E p \in Procs :
    /\ Rejected(p)
    /\ inv[p].validation.error = "Token expired"
    /\ IsAnonymousDeny(Decision(p), inv[p].methodArn)

\* C15: a returned decision carries a context exactly when its effect is Allow:
\* every Allow decision has one, no Deny decision (for the resource or the
\* global deny-all) has one.
C15_ContextIffAllow ==
  \A p \in Procs :
    Done(p) /\ inv[p].caller = "handler" =>
      (Decision(p).context # NoContext <=> Statement(p).Effect = "Allow")

\* C15 witness: an invocation ended in an Allow decision that has a context.
C15_Witness ==
  \E p \in Procs :
    /\ Done(p) /\ inv[p].caller = "handler"
    /\ Statement(p).Effect = "Allow"
    /\ Cardinality(Decision(p).context) = 1

\* ------------------------------------------------------------ local key
\* Non-production mode with a local key configured.
LocalMode == nodeEnv # "production" /\ localSecret \notin {Absent, ""}

\* C16: in non-production mode with a local key, getSecret for the configured
\* name returns the local key directly: no getSecretValue call is ever issued,
\* the cache is neither read nor written (it stays empty and no call holds an
\* entry or a fetch response), every resolution yields the local key, and no
\* validation fails for key unavailability.
C16_LocalKeyBypass ==
  LocalMode =>
    /\ fetches = 0
    /\ \A n \in SecretNames : secretsCache[n] = NoEntry
    /\ \A p \in Procs :
         /\ ~inv[p].issued
         /\ inv[p].response = NoResponse
         /\ inv[p].cachedSecret = NoEntry
         /\ inv[p].pc \notin {"fetching", "served"}
         /\ SecretSettled(p) => inv[p].secret = SecretOk(localSecret)
         /\ Done(p) => inv[p].validation.error # "Error validating token"

\* C16 witness: in that mode a token signed with the local key was validated
\* under the local key and allowed, without any fetch.
C16_Witness ==
  \E p \in Procs :
    /\ LocalMode
    /\ Done(p) /\ SecretSettled(p)
    /\ inv[p].secret = SecretOk(LocalKey)
    /\ inv[p].token.sig = LocalKey
    /\ inv[p].validation.isValid
    /\ fetches = 0

\* ------------------------------------------------------ resolver failure
\* C17 (as amended): when the resolver fails to resolve the key (the store
\* answered with an error or with an empty value), validateToken returns
\* Invalid with the fixed reason "Error validating token", whatever the token;
\* nothing of the store's error is in the returned outcome.
C17_ResolverFailureReason ==
  \A p \in Procs :
    Validated(p) /\ StoreFailed(p) =>
      /\ inv[p].secret.threw
      /\ inv[p].validation = InvalidResult("Error validating token")

\* C17 witness: the store answered a validateToken call with an empty value and
\* the call returned Invalid("Error validating token").
C17_Witness ==
  \E p \in Procs :
    /\ Validated(p)
    /\ inv[p].issued /\ inv[p].response.kind = "empty"
    /\ inv[p].validation = InvalidResult("Error validating token")

\* C17 as stated: the reason returned on a resolver failure is "validation
\* error".
C17_Original ==
  \A p \in Procs :
    Validated(p) /\ StoreFailed(p) =>
      inv[p].validation = InvalidResult("validation error")

\* ------------------------------------------------------- the cache write
\* In this step the awaited getSecretValue call of p settles with a value.
FetchSucceeds(p) ==
  /\ inv[p].pc = "served"
  /\ inv'[p].pc = "resolved"
  /\ ~inv'[p].secret.threw

\* C18 (as amended): when a store fetch succeeds, getSecret overwrites the cache
\* entry for that name with the fetched value and with the time read when the
\* getSecret call began, before it awaited the store: the time the fetch was
\* issued, not the time it completed.
C18_EntryStampedAtCallStart ==
  [][\A p \in Procs :
       FetchSucceeds(p) =>
         secretsCache'[JwtSecretName] =
           CacheEntry(inv[p].response.SecretString, inv[p].issuedAt)]_vars

\* C18 witness: a fetch issued at one time has completed at a later time and
\* the entry it wrote is in the cache, stamped with the time of issue.
C18_Witness ==
  \E p \in Procs :
    /\ SecretSettled(p) /\ inv[p].issued /\ ~inv[p].secret.threw
    /\ inv[p].issuedAt < clock
    /\ secretsCache[JwtSecretName] = CacheEntry(inv[p].secret.value, inv[p].issuedAt)

\* C18 as stated: the entry written on a successful fetch carries the time at
\* which the fetch completed and the entry was written.
C18_Original ==
  [][\A p \in Procs :
       FetchSucceeds(p) =>
         secretsCache'[JwtSecretName] =
           CacheEntry(inv[p].response.SecretString, clock)]_vars

\* ---------------------------------------------------- concurrent refreshes
\* C19: while the store's value has not changed, under every interleaving of
\* concurrent getSecret calls for the same name: every call whose own fetch was
\* answered with the value, and every call served from the cache, returns the
\* store's value; a call fails only when the store failed its own fetch; the
\* cache entry is either still missing or holds the store's value (never a
\* different or an empty one), and it holds it once any fetch has succeeded.
C19_ConcurrentRefreshSafe ==
  rotations = 0 =>
    /\ secretsCache[JwtSecretName].present =>
          secretsCache[JwtSecretName].value = storeValue
    /\ \A p \in Procs :
         SecretSettled(p) =>
           IF StoreFailed(p) THEN inv[p].secret.threw
           ELSE /\ inv[p].secret = SecretOk(storeValue)
                /\ secretsCache[JwtSecretName].present

\* C19 witness: two calls both found the entry missing and both fetched (each
\* began before the other's write); both returned the store's value and the
\* cache holds it.
C19_Witness ==
  /\ rotations = 0
  /\ \A p \in Procs :
       /\ SecretSettled(p)
       /\ inv[p].issued /\ inv[p].cachedSecret = NoEntry
       /\ inv[p].secret = SecretOk(storeValue)
  /\ inv["p1"].issuedAt < inv["p2"].issuedAt
  /\ secretsCache[JwtSecretName].present
  /\ secretsCache[JwtSecretName].value = storeValue

\* ------------------------------------------------------ bounded staleness
\* The getSecret call of p returned a value from the cache.
ServedFromCache(p) == SecretSettled(p) /\ ~inv[p].issued /\ ~useLocalSecrets

\* C20: bounded staleness under rotation, also with concurrent refreshes whose
\* responses complete out of order: a value getSecret returned from the cache at
\* time t is the value of an entry that a store fetch issued no earlier than the
\* entry's timestamp wrote, and t - timestamp < cacheExpiryMs; the same holds
\* of the entry in the cache at any time. The store answered that fetch after
\* it was issued, so the key returned was still being served less than
\* cacheExpiryMs before t.
C20_BoundedStaleness ==
  /\ secretsCache[JwtSecretName].present =>
        /\ cacheOrigin[JwtSecretName] # NoTime
        /\ cacheOrigin[JwtSecretName] >= secretsCache[JwtSecretName].timestamp
  /\ \A p \in Procs :
       ServedFromCache(p) =>
         /\ inv[p].cachedSecret.present
         /\ inv[p].secret = SecretOk(inv[p].cachedSecret.value)
         /\ inv[p].hitOrigin # NoTime
         /\ inv[p].hitOrigin >= inv[p].cachedSecret.timestamp
         /\ inv[p].now - inv[p].cachedSecret.timestamp < CacheExpiryMs

\* C20 witness: after a rotation a call was served the previous key from the
\* cache, from an entry younger than cacheExpiryMs.
C20_Witness ==
  \E p \in Procs :
    /\ ServedFromCache(p)
    /\ rotations > 0
    /\ inv[p].secret.value # storeValue
    /\ inv[p].now > inv[p].cachedSecret.timestamp
    /\ inv[p].now - inv[p].cachedSecret.timestamp < CacheExpiryMs

\* ------------------------------------------------------- entry lifecycle
\* The values the store ever holds for a name.
StoreValues(n) == IF n = JwtSecretName THEN StoreKeys ELSE {OtherKey}

\* C21: after every step each cache entry holds a non-empty value the store
\* returned for that entry's name; an entry appears or changes only in a step in
\* which a fetch for its name settles with a non-empty value, and then holds
\* that value; an entry that is present is never removed.
C21_EntryLifecycle ==
  [][\A n \in SecretNames :
       /\ secretsCache'[n].present =>
             /\ secretsCache'[n].value # ""
             /\ secretsCache'[n].value \in StoreValues(n)
       /\ secretsCache[n].present => secretsCache'[n].present
       /\ secretsCache'[n] # secretsCache[n] =>
             \E p \in Procs :
               /\ FetchSucceeds(p)
               /\ inv[p].secretName = n
               /\ inv[p].response.kind = "value"
               /\ inv[p].response.SecretString # ""
               /\ secretsCache'[n].value = inv[p].response.SecretString]_vars

\* C21 witness: the entry of the JWT secret, created with k1, was replaced with
\* k2 by the refresh of a call that had found the k1 entry expired.
C21_Witness ==
  \E p \in Procs :
    /\ inv[p].issued /\ inv[p].secretName = JwtSecretName
    /\ inv[p].cachedSecret.present /\ inv[p].cachedSecret.value = "k1"
    /\ secretsCache[JwtSecretName] = CacheEntry("k2", inv[p].issuedAt)
    /\ inv[p].pc = "done"

\* ------------------------------------------------------- failed fetches
\* In this step the awaited getSecretValue call of p settles on an error or on
\* an empty value.
FetchFails(p) ==
  /\ inv[p].pc = "served"
  /\ inv'[p].pc = "resolved"
  /\ inv[p].response.kind \in {"empty", "error"}

\* In this step a getSecret call begins in slot q (the request had a token),
\* not answered with the local secret, while the entry for its name is missing
\* or expired.
BeginsOnStaleEntry(q) ==
  /\ inv[q].pc = "idle"
  /\ inv'[q].pc \notin {"idle", "done"}
  /\ ~(LocalMode /\ inv'[q].secretName = JwtSecretName)
  /\ \/ ~secretsCache[inv'[q].secretName].present
     \/ clock - secretsCache[inv'[q].secretName].timestamp >= CacheExpiryMs

\* C22: a getSecret call whose fetch errors or returns an empty value throws
\* and leaves the cache exactly as it was (every entry, value and timestamp);
\* the failure is not cached: a getSecret call that begins while the entry for
\* its name is missing or expired issues a fetch.
C22_FailureNotCached ==
  [][/\ \A p \in Procs :
          FetchFails(p) => inv'[p].secret.threw /\ secretsCache' = secretsCache
     /\ \A q \in Procs :
          BeginsOnStaleEntry(q) =>
            /\ inv'[q].pc = "fetching" /\ inv'[q].issued
            /\ fetches' = fetches + 1]_vars

\* C22 witness: a call found an expired entry, its fetch failed and the entry is
\* still in place; the other call, begun later, found the same expired entry
\* and fetched again.
C22_Witness ==
  \E p, q \in Procs :
    /\ p # q
    /\ inv[p].secretName = inv[q].secretName
    /\ inv[p].pc \in {"resolved", "done"} /\ StoreFailed(p) /\ inv[p].secret.threw
    /\ inv[p].cachedSecret.present
    /\ secretsCache[inv[p].secretName] = inv[p].cachedSecret
    /\ inv[q].issued /\ inv[q].issuedAt > inv[p].issuedAt
    /\ inv[q].cachedSecret = inv[p].cachedSecret
    /\ inv[q].pc = "fetching"

\* ------------------------------------------------------------ no retries
\* C23: no retries. A fetch is issued only in the step in which a call begins,
\* one at a time, so a call issues at most one; no call in progress goes back
\* to fetching; when the fetch of a call fails, the resolver throws, and the
\* call then returns Invalid without another fetch.
C23_NoRetries ==
  [][/\ fetches' \in {fetches, fetches + 1}
     /\ fetches' # fetches =>
          \E p \in Procs : inv[p].pc = "idle" /\ inv'[p].pc = "fetching"
     /\ \A p \in Procs :
          /\ inv[p].pc \notin {"idle", "fetching"} => inv'[p].pc # "fetching"
          /\ FetchFails(p) => inv'[p].secret.threw /\ fetches' = fetches
          /\ inv[p].pc = "resolved" /\ StoreFailed(p) /\ inv'[p].pc = "done" =>
                /\ ~inv'[p].validation.isValid
                /\ fetches' = fetches]_vars

\* C23 witness: a call whose fetch failed has returned Invalid; a second call,
\* begun later, has issued the second fetch.
C23_Witness ==
  \E p, q \in Procs :
    /\ p # q
    /\ Done(p) /\ StoreFailed(p) /\ ~inv[p].validation.isValid
    /\ inv[q].issued /\ inv[q].issuedAt > inv[p].verifiedAt
    /\ invocations = 2 /\ fetches = 2

SecretReturned(p) ==
  /\ inv[p].caller = "getSecret"
  /\ inv[p].pc \in {"resolved", "done"}
  /\ ~inv[p].secret.threw

\* The value p returned is the value of the store's answer to p's own fetch, or
\* that of the unexpired cache entry p found.
FromStoreOrCache(p) ==
  IF inv[p].issued
    THEN /\ inv[p].response.kind = "value"
         /\ inv[p].secret.value = inv[p].response.SecretString
    ELSE /\ inv[p].cachedSecret.present
         /\ inv[p].secret.value = inv[p].cachedSecret.value
         /\ inv[p].now - inv[p].cachedSecret.timestamp < CacheExpiryMs

\* C25: in production mode getSecret never returns the local key, also when
\* one is configured: every value it returns comes from a store fetch or from
\* an unexpired cache entry; and in no mode is the local key returned for a
\* name other than the configured JWT secret name.
C25_BypassBounded ==
  \A p \in Procs :
    SecretReturned(p)
      /\ (nodeEnv = "production" \/ inv[p].secretName # JwtSecretName) =>
        /\ FromStoreOrCache(p)
        /\ inv[p].secret.value # LocalKey
        /\ inv[p].secret.value \in StoreValues(inv[p].secretName)

\* C25 witness: in production mode with a local key configured, a getSecret
\* call for the JWT secret name returned the store's value from a fetch.
C25_Witness ==
  \E p \in Procs :
    /\ nodeEnv = "production" /\ localSecret = LocalKey
    /\ SecretReturned(p)
    /\ inv[p].secretName = JwtSecretName
    /\ inv[p].issued
    /\ inv[p].secret.value \in StoreKeys

\* ---------------------------------------------------------------- no hang
\* A handler call is in progress in slot p.
InProgress(p) == inv[p].pc \notin {"idle", "done"}

\* A slot whose fetch was answered, or whose secret is settled, can take its
\* next step.
NeverBlocked ==
  \A p \in Procs :
    /\ inv[p].pc = "served" => ENABLED Deliver(p)
    /\ inv[p].pc = "resolved" => ENABLED Complete(p)

\* C26: the validator does not hang. If every store fetch is answered in the
\* end, every handler invocation in progress eventually returns a decision; an
\* invocation waits only for the answer to its own fetch: once the answer is
\* there its settling, and after that the rest of handler, can always run,
\* whatever the other invocations are doing.
C26_NoHang ==
  /\ []NeverBlocked
  /\ \A p \in Procs :
       InProgress(p) ~> (Done(p) /\ inv[p].result.kind = "returned")

\* C26 witness: an invocation has returned its decision after its fetch was
\* answered, while the fetch of an invocation that began no later is still
\* unanswered.
C26_Witness ==
  \E p, q \in Procs :
    /\ p # q
    /\ Done(p) /\ inv[p].issued /\ inv[p].result.kind = "returned"
    /\ inv[q].pc = "fetching"
    /\ inv[q].issuedAt <= inv[p].issuedAt

====
